---- MODULE Spec2Model ----
(***************************************************************************)
(* NHL player stats tracker: the directory cache and ranked search         *)
(* (lib/nhlApi), the stats fetcher (getNHLPlayerStats) and the refresh     *)
(* batch of App (handleRefreshStats).  The repository holds two revisions  *)
(* of the application; the variable `variant` says which one runs:         *)
(*   "id"   - src/unnamed/part_003 (App) with the nhlApi module stored in  *)
(*            src/supabase/migrations/20251120055632_add_nhl_player_id.sql *)
(*   "name" - src/project/src/App.tsx with nhlApi of src/unnamed/part_000  *)
(***************************************************************************)
EXTENDS Integers, Sequences, FiniteSets, TLC

\* ------------------------------------------------------------------ bounds
MaxRows == 3
MaxBatches == 1
MaxCalls == 2
MaxSearches == 3
MaxDir == 3
MaxClock == 1
MaxOps == 2
MaxWrites == 2
MaxSeasonCalls == 2
MaxFetches == 2
MaxEditRows == 2
MaxSaves == 1


\* ------------------------------------------------------------- JS strings
\* A string is a sequence of one-character strings.
UpperChars == <<"A","B","C","D","E","F","G","H","I","J","K","L","M",
                "N","O","P","Q","R","S","T","U","V","W","X","Y","Z">>
LowerChars == <<"a","b","c","d","e","f","g","h","i","j","k","l","m",
                "n","o","p","q","r","s","t","u","v","w","x","y","z">>
\* collation order of the characters the model uses: space, then letters
CollationOrder == <<" ">> \o LowerChars

IndexOf(seq, x) ==
  IF \E i \in 1..Len(seq) : seq[i] = x
  THEN CHOOSE i \in 1..Len(seq) : seq[i] = x /\ \A j \in 1..(i-1) : seq[j] # x
  ELSE 0

LowerChar(c) == IF IndexOf(UpperChars, c) > 0 THEN LowerChars[IndexOf(UpperChars, c)] ELSE c

ToLowerCase(s) == [i \in 1..Len(s) |-> LowerChar(s[i])]

RECURSIVE TrimStart(_)
TrimStart(s) == IF s # <<>> /\ Head(s) = " " THEN TrimStart(Tail(s)) ELSE s

RECURSIVE TrimEnd(_)
TrimEnd(s) == IF s # <<>> /\ s[Len(s)] = " " THEN TrimEnd(SubSeq(s, 1, Len(s) - 1)) ELSE s

Trim(s) == TrimEnd(TrimStart(s))

StartsWith(s, p) == Len(p) <= Len(s) /\ SubSeq(s, 1, Len(p)) = p

Includes(s, p) == \E i \in 0..(Len(s) - Len(p)) : SubSeq(s, i + 1, i + Len(p)) = p

\* a.localeCompare(b) on lower-cased names: -1, 0 or 1
RECURSIVE LocaleCompare(_, _)
LocaleCompare(a, b) ==
  IF a = <<>> /\ b = <<>> THEN 0
  ELSE IF a = <<>> THEN -1
  ELSE IF b = <<>> THEN 1
  ELSE IF Head(a) = Head(b) THEN LocaleCompare(Tail(a), Tail(b))
  ELSE IF IndexOf(CollationOrder, Head(a)) < IndexOf(CollationOrder, Head(b)) THEN -1
  ELSE 1

Range(seq) == {seq[i] : i \in 1..Len(seq)}

\* Array.prototype.sort: stable, by a comparator given as the function
\* cmp[<<a, b>>] (negative: a first, positive: b first, 0: keep order)
RECURSIVE InsertSorted(_, _, _)
InsertSorted(x, sorted, cmp) ==
  IF sorted = <<>> THEN <<x>>
  ELSE IF cmp[<<x, Head(sorted)>>] < 0 THEN <<x>> \o sorted
  ELSE <<Head(sorted)>> \o InsertSorted(x, Tail(sorted), cmp)

RECURSIVE SortBy(_, _)
SortBy(seq, cmp) ==
  IF seq = <<>> THEN <<>>
  ELSE InsertSorted(seq[Len(seq)], SortBy(SubSeq(seq, 1, Len(seq) - 1), cmp), cmp)

\* optional values (undefined / present)
None == <<>>
Some(x) == <<x>>
OrZero(opt) == IF opt = None \/ opt[1] = 0 THEN 0 ELSE opt[1]

\* ------------------------------------------------------------ name pool
MarkStone == <<"M","a","r","k"," ","S","t","o","n","e">>
ConnorMcDavid == <<"C","o","n","n","o","r"," ","M","c","D","a","v","i","d">>
Marner == <<"M","a","r","n","e","r">>
Omar == <<"O","m","a","r">>
Mar == <<"M","a","r">>
UnknownPlayer == <<"U","n","k","n","o","w","n"," ","P","l","a","y","e","r">>

NamePool == <<MarkStone, Marner, Omar, ConnorMcDavid, Mar>>

\* directory entries the provider may list: {id, fullName}
DirEntries == {[id |-> i, fullName |-> NamePool[i]] : i \in 1..Len(NamePool)}

RECURSIVE SeqsUpTo(_, _)
SeqsUpTo(S, n) ==
  IF n = 0 THEN {<<>>}
  ELSE LET shorter == SeqsUpTo(S, n - 1)
       IN shorter \cup {Append(q, x) : q \in {r \in shorter : Len(r) = n - 1}, x \in S}

Entry(i) == [id |-> i, fullName |-> NamePool[i]]

\* every list of up to MaxDir pairwise distinct entries
AllDirectories ==
  {d \in SeqsUpTo(DirEntries, MaxDir) :
     d # <<>> /\ \A i, j \in 1..Len(d) : i # j => d[i] # d[j]}

\* the payload lists the bulk fetch returns in the application runs; the
\* last one repeats a provider id
Directories ==
  {<<Entry(1), Entry(4), Entry(2)>>,
   <<Entry(3), Entry(5), Entry(1)>>,
   <<[id |-> 1, fullName |-> MarkStone], [id |-> 2, fullName |-> Marner],
     [id |-> 1, fullName |-> Mar]>>}

\* what the bulk directory fetch can come back with
BulkFailures ==
  {[kind |-> "throw", shape |-> "none", list |-> None],
   [kind |-> "status", shape |-> "none", list |-> None],
   [kind |-> "badjson", shape |-> "none", list |-> None],
   [kind |-> "json", shape |-> "null", list |-> None],
   [kind |-> "json", shape |-> "object", list |-> None],
   [kind |-> "json", shape |-> "object", list |-> Some(<<>>)],
   [kind |-> "json", shape |-> "array", list |-> Some(<<>>)]}

\* a well-formed payload of the provider the variant talks to
BulkPayload(v, d) ==
  [kind |-> "json", shape |-> IF v = "id" THEN "array" ELSE "object", list |-> Some(d)]

BulkResponses(v) == BulkFailures \cup {BulkPayload(v, d) : d \in Directories}

\* ------------------------------------------- lib/nhlApi: directory cache
\* new Map(list.map(p => [p.id, {id, fullName}])): a key keeps the position
\* of its first occurrence and the value of its last
RECURSIVE MapFromList(_)
MapFromList(list) ==
  IF list = <<>> THEN <<>>
  ELSE LET init == MapFromList(SubSeq(list, 1, Len(list) - 1))
           e == list[Len(list)]
       IN IF \E i \in 1..Len(init) : init[i].id = e.id
          THEN [i \in 1..Len(init) |-> IF init[i].id = e.id THEN e ELSE init[i]]
          ELSE Append(init, e)

\* the player list loadAllPlayers accepts from a response, <<>> when it
\* takes one of its failure exits (not ok, thrown, empty or malformed payload)
BulkPlayers(v, resp) ==
  IF resp.kind # "json" THEN <<>>
  ELSE IF v = "id"
       THEN (IF resp.shape = "array" /\ resp.list # None THEN resp.list[1] ELSE <<>>)
       ELSE (IF resp.shape = "object" /\ resp.list # None THEN resp.list[1] ELSE <<>>)

\* loadAllPlayers after its fetch: the Map it returns and the new cachedPlayers
LoadAllPlayersNoCacheOnSuccess(v, cache, resp) ==
  [map |-> MapFromList(BulkPlayers(v, resp)), cache |-> cache]

LoadAllPlayersCacheFailure(v, cache, resp) ==
  [map |-> MapFromList(BulkPlayers(v, resp)), cache |-> Some(MapFromList(BulkPlayers(v, resp)))]

LoadAllPlayers(v, cache, resp) ==
  IF BulkPlayers(v, resp) = <<>>
  THEN [map |-> <<>>, cache |-> cache]
  ELSE [map |-> MapFromList(BulkPlayers(v, resp)),
        cache |-> Some(MapFromList(BulkPlayers(v, resp)))]

\* ----------------------------------------------- lib/nhlApi: ranked search
\* the comparator of results.sort in searchNHLPlayers
SearchCompareNoExact(v, searchLower, a, b) ==
  LET aNameLower == ToLowerCase(a.name)
      bNameLower == ToLowerCase(b.name)
      aStartsWith == StartsWith(aNameLower, searchLower)
      bStartsWith == StartsWith(bNameLower, searchLower)
  IN IF aStartsWith /\ ~bStartsWith THEN -1
     ELSE IF ~aStartsWith /\ bStartsWith THEN 1
     ELSE IF v = "id" THEN LocaleCompare(aNameLower, bNameLower)
     ELSE 0

SearchCompare(v, searchLower, a, b) ==
  LET aNameLower == ToLowerCase(a.name)
      bNameLower == ToLowerCase(b.name)
      aExact == aNameLower = searchLower
      bExact == bNameLower = searchLower
      aStartsWith == StartsWith(aNameLower, searchLower)
      bStartsWith == StartsWith(bNameLower, searchLower)
  IN IF aExact /\ ~bExact THEN -1
     ELSE IF ~aExact /\ bExact THEN 1
     ELSE IF aStartsWith /\ ~bStartsWith THEN -1
     ELSE IF ~aStartsWith /\ bStartsWith THEN 1
     ELSE IF v = "id" THEN LocaleCompare(aNameLower, bNameLower)
     ELSE 0

\* searchNHLPlayers once loadAllPlayers has returned allPlayers
SearchNHLPlayers(v, allPlayers, query) ==
  IF Len(allPlayers) = 0 THEN <<>>
  ELSE LET searchLower == Trim(ToLowerCase(query))
           matches(p) == Includes(ToLowerCase(p.fullName), searchLower)
           found == SelectSeq(allPlayers, matches)
           results == [i \in 1..Len(found) |-> [id |-> found[i].id, name |-> found[i].fullName]]
           cmp == [pr \in Range(results) \X Range(results) |->
                     SearchCompare(v, searchLower, pr[1], pr[2])]
       IN SortBy(results, cmp)

\* ------------------------------------------- lib/nhlApi: season resolver
DigitChars == <<"0","1","2","3","4","5","6","7","8","9">>

\* the decimal rendering of a number in a template literal
RECURSIVE NumberToString(_)
NumberToString(n) ==
  IF n < 10 THEN <<DigitChars[n + 1]>>
  ELSE NumberToString(n \div 10) \o <<DigitChars[(n % 10) + 1]>>

\* getCurrentNHLSeason with `now` = date (month 0 = January)
GetCurrentNHLSeasonSeptemberLate(date) ==
  IF date.month <= 8
  THEN NumberToString(date.year - 1) \o NumberToString(date.year)
  ELSE NumberToString(date.year) \o NumberToString(date.year + 1)

GetCurrentNHLSeason(date) ==
  IF date.month < 8
  THEN NumberToString(date.year - 1) \o NumberToString(date.year)
  ELSE NumberToString(date.year) \o NumberToString(date.year + 1)

\* the dates a call may read from the clock: both sides of the boundary
Dates == {[year |-> 2025, month |-> 7], [year |-> 2025, month |-> 8]}

\* --------------------------------------------- provider stats responses
PlayerNameOf(pid) == IF pid \in 1..Len(NamePool) THEN NamePool[pid] ELSE UnknownPlayer

StatsTransportFailures ==
  {[kind |-> "throw", isNull |-> FALSE, stats |-> None, people |-> None],
   [kind |-> "status", isNull |-> FALSE, stats |-> None, people |-> None],
   [kind |-> "badjson", isNull |-> FALSE, stats |-> None, people |-> None],
   [kind |-> "json", isNull |-> TRUE, stats |-> None, people |-> None]}

Json(stats, people) == [kind |-> "json", isNull |-> FALSE, stats |-> stats, people |-> people]

\* the stat objects of /people/{id}/stats?stats=statsSingleSeason
SeasonStats ==
  {[games |-> Some(10), goals |-> Some(1), assists |-> Some(2), shots |-> Some(5)],
   [games |-> Some(2), goals |-> None, assists |-> Some(1), shots |-> None],
   [games |-> None, goals |-> None, assists |-> None, shots |-> None]}

\* responses of the season-stats endpoint (variant "id")
IdStatsResponses(pid) ==
  StatsTransportFailures
  \cup {Json(None, None), Json(Some(<<>>), None),
        Json(Some(<<[splits |-> None]>>), None),
        Json(Some(<<[splits |-> Some(<<>>)]>>), Some(<<[fullName |-> PlayerNameOf(pid)]>>))}
  \cup {Json(Some(<<[splits |-> Some(<<[stat |-> st]>>)]>>), ppl) :
          st \in SeasonStats,
          ppl \in {None, Some(<<>>), Some(<<[fullName |-> PlayerNameOf(pid)]>>)}}

\* season rows of the legacy /people/{id} record
LegacySeasons ==
  {<<>>,
   <<[season |-> <<"2","0","2","4","2","0","2","5">>, gamesPlayed |-> Some(2),
      points |-> None, shots |-> Some(5)]>>,
   <<[season |-> <<"2","0","2","4","2","0","2","5">>, gamesPlayed |-> Some(2),
      points |-> None, shots |-> Some(5)],
     [season |-> <<"2","0","2","5","2","0","2","6">>, gamesPlayed |-> Some(10),
      points |-> Some(3), shots |-> Some(5)]>>}

LegacyStatGroups ==
  {None, Some(<<>>),
   Some(<<[displayName |-> "yearByYear", stats |-> Some(<<>>)]>>),
   Some(<<[displayName |-> "regularSeasonStatRest", stats |-> None]>>)}
  \cup {Some(<<[displayName |-> "yearByYear", stats |-> Some(<<>>)],
               [displayName |-> "regularSeasonStatRest", stats |-> Some(ss)]>>) :
          ss \in LegacySeasons}

\* responses of the legacy player endpoint (variant "name")
NameStatsResponses(pid) ==
  StatsTransportFailures
  \cup {Json(None, None), Json(None, Some(<<>>))}
  \cup {Json(None, Some(<<[id |-> pid, fullName |-> PlayerNameOf(pid), stats |-> g]>>)) :
          g \in LegacyStatGroups}

StatsResponses(v, pid) == IF v = "id" THEN IdStatsResponses(pid) ELSE NameStatsResponses(pid)

\* ----------------------------------------- lib/nhlApi: getNHLPlayerStats
\* "no result" is None, a snapshot s is Some(s)
ZeroSnapshotId(playerId) ==
  [playerId |-> playerId, playerName |-> UnknownPlayer,
   pointsGames |-> 0, totalGames |-> 0, shots |-> 0]

\* identifier-based variant, after its fetch has come back with resp
GetNHLPlayerStatsIdNoZeroFill(playerId, resp) ==
  IF resp.kind # "json" \/ resp.isNull THEN None
  ELSE IF resp.stats = None \/ resp.stats[1] = <<>>
          \/ resp.stats[1][1].splits = None \/ resp.stats[1][1].splits[1] = <<>>
       THEN None     \* data.stats[0].splits[0].stat throws, caught
  ELSE LET stats == resp.stats[1][1].splits[1][1].stat
       IN IF resp.people = None \/ resp.people[1] = <<>>
          THEN None
          ELSE Some([playerId |-> playerId, playerName |-> resp.people[1][1].fullName,
                     pointsGames |-> OrZero(stats.goals) + OrZero(stats.assists),
                     totalGames |-> OrZero(stats.games), shots |-> OrZero(stats.shots)])

GetNHLPlayerStatsIdStatusUnchecked(playerId, resp) ==
  IF resp.kind \notin {"json", "status"} \/ resp.isNull THEN None
  ELSE IF resp.stats = None \/ resp.stats[1] = <<>>
          \/ resp.stats[1][1].splits = None \/ resp.stats[1][1].splits[1] = <<>>
       THEN Some(ZeroSnapshotId(playerId))   \* the error body has no stats
  ELSE LET stats == resp.stats[1][1].splits[1][1].stat
       IN IF resp.people = None \/ resp.people[1] = <<>>
          THEN None
          ELSE Some([playerId |-> playerId, playerName |-> resp.people[1][1].fullName,
                     pointsGames |-> OrZero(stats.goals) + OrZero(stats.assists),
                     totalGames |-> OrZero(stats.games), shots |-> OrZero(stats.shots)])

GetNHLPlayerStatsId(playerId, resp) ==
  IF resp.kind # "json" \/ resp.isNull THEN None
  ELSE IF resp.stats = None \/ resp.stats[1] = <<>>
          \/ resp.stats[1][1].splits = None \/ resp.stats[1][1].splits[1] = <<>>
       THEN Some(ZeroSnapshotId(playerId))
  ELSE LET stats == resp.stats[1][1].splits[1][1].stat
           gamesPlayed == OrZero(stats.games)
           goals == OrZero(stats.goals)
           assists == OrZero(stats.assists)
           shots == OrZero(stats.shots)
           totalPoints == goals + assists
       IN IF resp.people = None \/ resp.people[1] = <<>>
          THEN None     \* data.people[0].fullName throws, caught
          ELSE Some([playerId |-> playerId, playerName |-> resp.people[1][1].fullName,
                     pointsGames |-> totalPoints, totalGames |-> gamesPlayed,
                     shots |-> shots])

ZeroSnapshotLegacy(player) ==
  [playerId |-> player.id, playerName |-> player.fullName, points |-> 0,
   pointsGames |-> 0, totalGames |-> 0, shots |-> 0]

\* legacy variant from its fetch of /people/{playerId} on
GetNHLPlayerStatsLegacy(playerId, resp, date) ==
  IF resp.kind # "json" \/ resp.isNull THEN None
  ELSE IF resp.people = None \/ resp.people[1] = <<>> THEN None
  ELSE LET player == resp.people[1][1]
           currentSeason == GetCurrentNHLSeason(date)
           stats == IF player.stats = None THEN <<>> ELSE player.stats[1]
           regular == SelectSeq(stats, LAMBDA g : g.displayName = "regularSeasonStatRest")
       IN IF regular = <<>> THEN Some(ZeroSnapshotLegacy(player))
          ELSE LET statsArray == IF regular[1].stats = None THEN <<>> ELSE regular[1].stats[1]
                   season == SelectSeq(statsArray, LAMBDA e : e.season = currentSeason)
               IN IF season = <<>> THEN Some(ZeroSnapshotLegacy(player))
                  ELSE LET games == OrZero(season[1].gamesPlayed)
                           points == OrZero(season[1].points)
                           shots == OrZero(season[1].shots)
                           pointsGames == IF points > 0 THEN games ELSE 0
                       IN Some([playerId |-> player.id, playerName |-> player.fullName,
                                points |-> points, pointsGames |-> pointsGames,
                                totalGames |-> games, shots |-> shots])

\* getNHLPlayerStats given a numeric identifier (both variants)
GetNHLPlayerStats(v, playerId, resp, date) ==
  IF v = "id" THEN GetNHLPlayerStatsId(playerId, resp)
  ELSE GetNHLPlayerStatsLegacy(playerId, resp, date)

\* ------------------------------------------------------------------ state
VARIABLES
  variant,               \* which revision of the application runs
  rows,                  \* the nhl_players table: row id -> row
  clock,                 \* what new Date() returns
  players, loading,      \* App state: the listed players, the loading flag
  mountLoad,             \* the loadPlayers call of the mount effect
  isRefreshing,          \* App state: the 'refreshing' flag
  rpc,                   \* where handleRefreshStats is suspended
  batch,                 \* the players list its closure iterates
  rIdx, rPid,            \* its loop position and the provider id it fetches
  updatedCount, failedPlayers, nhlStats,     \* its locals
  rNow,                  \* the new Date() of the update it has issued
  replies,               \* what was answered for the players it has processed
  rowsAtStart,           \* the table as it was when the batch started
  alerts,                \* the alert() messages shown so far
  batches,               \* refresh batches started
  statsCall,             \* the latest getNHLPlayerStats call: input and result
  cachedPlayers,         \* lib/nhlApi module state: None or Some(Map)
  calls,                 \* the form's searchNHLPlayers calls in flight
  debouncedSearchQuery, searchResults, isSearching,   \* AddPlayerForm state
  searchCalls, bulkFetches, bulkFailed,      \* counts of calls and bulk fetches
  overlapped,            \* a search call began while another was in flight
  ops,                   \* the add/update/delete handlers of App in flight
  notices,               \* the alert() messages those handlers have shown
  writeCount,            \* insert/update/delete requests they have issued
  answers,               \* what the storage layer answered to them, in order
  nextId,                \* the id gen_random_uuid() gives the next inserted row
  today,                 \* the date getCurrentNHLSeason reads
  season,                \* what its latest call returned
  seasonCalls,           \* how often it has been called
  sortBy,                \* App state: the column the table is sorted by
  selectedPlayer,        \* AddPlayerForm state: the chosen search result, if any
  newPlayer,             \* AddPlayerForm state: the draft record
  isFetchingStats,       \* AddPlayerForm state
  statFetches            \* getNHLPlayerStats calls of handleSelectPlayer in flight

appVars == <<variant, rows, clock, players, loading, mountLoad>>
refreshVars == <<isRefreshing, rpc, batch, rIdx, rPid, updatedCount, failedPlayers,
                 nhlStats, rNow, replies, rowsAtStart, alerts, batches, statsCall>>
cacheVars == <<cachedPlayers, searchCalls, bulkFetches, bulkFailed, overlapped>>
formVars == <<calls, debouncedSearchQuery, searchResults, isSearching>>
crudVars == <<ops, notices, writeCount, answers, nextId>>
seasonVars == <<today, season, seasonCalls>>
viewVars == <<sortBy>>
selectVars == <<selectedPlayer, newPlayer, isFetchingStats, statFetches>>
vars == <<appVars, refreshVars, cacheVars, formVars, crudVars, seasonVars, viewVars, selectVars>>

Variants == {"id", "name"}
Callers == 1..MaxCalls

\* the queries the debounced search box takes
Queries ==
  {<<>>, <<"m">>, <<"m","a","r">>, <<"M","a","r"," ">>, <<"a","r">>, <<"o","m","a","r">>}

\* ------------------------------------------------------ persisted table
\* provider identifiers a stored row may carry: unset, the sentinel 0, or
\* the provider's id of the player of that name (the legacy table has no
\* such column); shots_threshold is kept in tenths (15 = 1.5)
ProviderIdKinds(v) == IF v = "id" THEN {"unset", "sentinel", "set"} ELSE {"unset"}

ProviderId(kind, i) ==
  IF kind = "unset" THEN None ELSE IF kind = "sentinel" THEN Some(0) ELSE Some(i)

InitialRow(i, kind) ==
  [id |-> i, name |-> NamePool[((i - 1) % Len(NamePool)) + 1],
   nhl_player_id |-> ProviderId(kind, ((i - 1) % Len(NamePool)) + 1),
   points_games |-> 4, points_total_games |-> 6, shots_threshold |-> 15,
   shots_games |-> 9, shots_total_games |-> 6, created_at |-> 0, updated_at |-> 0]

InitialTables(v) ==
  UNION {{[i \in 1..n |-> InitialRow(i, k[i])] : k \in [1..n -> ProviderIdKinds(v)]} :
           n \in 0..MaxRows}

\* select('*').order('name'): the rows by name, then by id
ListAll(table) ==
  LET ids == DOMAIN table
      RECURSIVE Listed(_)
      Listed(S) == IF S = {} THEN <<>>
                   ELSE LET i == CHOOSE x \in S : \A y \in S : x <= y
                        IN <<table[i]>> \o Listed(S \ {i})
      listed == Listed(ids)
      cmp == [pr \in Range(listed) \X Range(listed) |->
                LocaleCompare(ToLowerCase(pr[1].name), ToLowerCase(pr[2].name))]
  IN SortBy(listed, cmp)

\* the add/update/delete handler instances that may be in flight at once
Handlers == 1..MaxOps

IdleOp == [kind |-> "none", pc |-> "idle", id |-> 0, fields |-> <<>>]

\* the date the page is opened on
Epoch == [year |-> 2025, month |-> 7]

\* AddPlayerForm: the initial newPlayer
EmptyDraft ==
  [nhl_player_id |-> 0, name |-> <<>>, points_games |-> 0, points_total_games |-> 0,
   shots_threshold |-> 15, shots_games |-> 0, shots_total_games |-> 0]

\* the state after construction, but for the table and the module state
InitCommon ==
  /\ variant \in Variants
  /\ clock = 0
  /\ players = <<>> /\ loading = TRUE /\ mountLoad = "loading"
  /\ isRefreshing = FALSE /\ rpc = "idle" /\ batch = <<>> /\ rIdx = 0 /\ rPid = 0
  /\ updatedCount = 0 /\ failedPlayers = <<>> /\ nhlStats = None /\ rNow = 0
  /\ replies = <<>> /\ rowsAtStart = <<>>
  /\ alerts = <<>> /\ batches = 0 /\ statsCall = None
  /\ calls = [c \in Callers |-> [pc |-> "idle", query |-> <<>>]]
  /\ debouncedSearchQuery = <<>> /\ searchResults = <<>> /\ isSearching = FALSE
  /\ bulkFailed = 0 /\ overlapped = FALSE
  /\ ops = [k \in Handlers |-> IdleOp] /\ notices = <<>> /\ writeCount = 0 /\ answers = <<>>
  /\ nextId = MaxRows + 1
  /\ season = None /\ seasonCalls = 0
  /\ sortBy = "name"
  /\ selectedPlayer = None /\ newPlayer = EmptyDraft
  /\ isFetchingStats = FALSE /\ statFetches = <<>>

Init ==
  /\ InitCommon
  /\ today = Epoch
  /\ rows \in InitialTables(variant)
  /\ cachedPlayers = None
  /\ searchCalls = 0 /\ bulkFetches = 0

\* ------------------------------------------- AddPlayerForm: performSearch
OthersInFlight(c) == (\E d \in Callers \ {c} : calls[d].pc = "fetching") \/ rpc = "loading"

\* performSearch: debouncedSearchQuery.length >= 2
LongEnoughNonEmpty(q) == Len(q) >= 1

LongEnough(q) == Len(q) >= 2

\* the effect on a new debounced query q; caller c is the searchNHLPlayers
\* call it makes when the query is long enough
PerformSearch(c, q) ==
  /\ q # debouncedSearchQuery
  /\ calls[c].pc = "idle"
  /\ \A d \in Callers : d < c => calls[d].pc # "idle"
  /\ searchCalls < MaxSearches
  /\ debouncedSearchQuery' = q
  /\ IF LongEnough(q)
     THEN /\ searchCalls' = searchCalls + 1
          /\ IF cachedPlayers # None
             THEN /\ searchResults' = SearchNHLPlayers(variant, cachedPlayers[1], q)
                  /\ isSearching' = FALSE
                  /\ UNCHANGED <<calls, bulkFetches, overlapped>>
             ELSE /\ calls' = [calls EXCEPT ![c] = [pc |-> "fetching", query |-> q]]
                  /\ isSearching' = TRUE
                  /\ bulkFetches' = bulkFetches + 1
                  /\ overlapped' = (overlapped \/ OthersInFlight(c))
                  /\ UNCHANGED searchResults
     ELSE /\ searchResults' = <<>>
          /\ UNCHANGED <<calls, isSearching, searchCalls, bulkFetches, overlapped>>
  /\ UNCHANGED <<cachedPlayers, bulkFailed, appVars, refreshVars>>
  /\ UNCHANGED <<crudVars, seasonVars, viewVars, selectVars>>

\* the bulk fetch of call c comes back: loadAllPlayers and searchNHLPlayers
\* finish, performSearch stores the results
SearchFetchReturn(c, resp) ==
  /\ calls[c].pc = "fetching"
  /\ LET loaded == LoadAllPlayers(variant, cachedPlayers, resp)
     IN /\ cachedPlayers' = loaded.cache
        /\ searchResults' = SearchNHLPlayers(variant, loaded.map, calls[c].query)
        /\ bulkFailed' = IF loaded.map = <<>> THEN bulkFailed + 1 ELSE bulkFailed
  /\ isSearching' = FALSE
  /\ calls' = [calls EXCEPT ![c] = [pc |-> "idle", query |-> <<>>]]
  /\ UNCHANGED <<debouncedSearchQuery, searchCalls, bulkFetches, overlapped,
                 appVars, refreshVars>>
  /\ UNCHANGED <<crudVars, seasonVars, viewVars, selectVars>>

NextSearch ==
  \/ \E c \in Callers, q \in Queries : PerformSearch(c, q)
  \/ \E c \in Callers : \E resp \in BulkResponses(variant) : SearchFetchReturn(c, resp)

\* the form alone, over an empty table
InitSearch == Init /\ rows = <<>>
SpecSearch == InitSearch /\ [][NextSearch]_vars

\* searchNHLPlayers over every directory a first search call may have cached
InitRank ==
  /\ InitCommon
  /\ today = Epoch
  /\ rows = <<>>
  /\ cachedPlayers \in {Some(MapFromList(d)) : d \in AllDirectories}
  /\ searchCalls = 1 /\ bulkFetches = 1
NextRank == \E c \in Callers, q \in Queries : PerformSearch(c, q)
SpecRank == InitRank /\ [][NextRank]_vars

\* ------------------------------------------------------- App: loadPlayers
\* the select of the mount effect's loadPlayers returns
LoadPlayersReturn(ok) ==
  /\ mountLoad = "loading"
  /\ mountLoad' = "idle"
  /\ players' = IF ok THEN ListAll(rows) ELSE players
  /\ loading' = FALSE
  /\ UNCHANGED <<variant, rows, clock, refreshVars, cacheVars, formVars>>
  /\ UNCHANGED <<crudVars, seasonVars, viewVars, selectVars>>

\* ------------------------------------------------ App: handleRefreshStats
MissingId == "Missing NHL Player ID (Old manual entry)"
NotFetched(v) ==
  IF v = "id" THEN "Could not fetch stats from NHL API" ELSE "Player not found in NHL database"
NoGames == "No games played this season"
DbFailed == "Database update failed"
Thrown == {"Failed to fetch", "Unknown error"}

Failure(player, reason) == [name |-> player.name, reason |-> reason]

\* the guard at the head of the loop body (only the id-based revision has it)
HasNoProviderIdOnlyUnset(v, player) == v = "id" /\ player.nhl_player_id = None

HasNoProviderId(v, player) ==
  v = "id" /\ (player.nhl_player_id = None \/ player.nhl_player_id[1] = 0)

\* what the provider and the table answered for one player of the batch
Reply(searched, games, wrote) == [searched |-> searched, games |-> games, wrote |-> wrote]

\* The loop from player i on, up to its next await: where the handler
\* suspends (pc), at which player (idx), the failures pushed on the way,
\* the provider id being fetched and the searchNHLPlayers calls made.
RECURSIVE RunLoopBreaks(_, _, _, _, _, _)
RunLoopBreaks(v, cache, list, i, failed, answered) ==
  IF i > Len(list)
  THEN [pc |-> "reloading", idx |-> i, failed |-> failed, pid |-> 0, searched |-> 0,
        answered |-> answered]
  ELSE IF HasNoProviderId(v, list[i])
  THEN [pc |-> "reloading", idx |-> i + 1,
        failed |-> Append(failed, Failure(list[i], MissingId)), pid |-> 0, searched |-> 0,
        answered |-> Append(answered, Reply("none", None, "none"))]
  ELSE IF v = "id"
  THEN [pc |-> "fetching", idx |-> i, failed |-> failed,
        pid |-> list[i].nhl_player_id[1], searched |-> 0, answered |-> answered]
  ELSE IF cache = None
  THEN [pc |-> "loading", idx |-> i, failed |-> failed, pid |-> 0, searched |-> 1,
        answered |-> answered]
  ELSE LET found == SearchNHLPlayers(v, cache[1], list[i].name)
       IN IF found = <<>>
          THEN [pc |-> "reloading", idx |-> i + 1,
                failed |-> Append(failed, Failure(list[i], NotFetched(v))), pid |-> 0,
                searched |-> 1, answered |-> Append(answered, Reply("notfound", None, "none"))]
          ELSE [pc |-> "fetching", idx |-> i, failed |-> failed,
                pid |-> found[1].id, searched |-> 1, answered |-> answered]

RunLoopLastFirst(v, cache, list, i, failed, answered) ==
  IF i > Len(list) \/ v # "id" \/ HasNoProviderId(v, list[Len(list)])
  THEN [pc |-> "reloading", idx |-> Len(list) + 1, failed |-> failed, pid |-> 0,
        searched |-> 0, answered |-> answered]
  ELSE [pc |-> "fetching", idx |-> Len(list), failed |-> failed,
        pid |-> list[Len(list)].nhl_player_id[1], searched |-> 0, answered |-> answered]

RECURSIVE RunLoop(_, _, _, _, _, _)
RunLoop(v, cache, list, i, failed, answered) ==
  IF i > Len(list)
  THEN [pc |-> "reloading", idx |-> i, failed |-> failed, pid |-> 0, searched |-> 0,
        answered |-> answered]
  ELSE IF HasNoProviderId(v, list[i])
  THEN RunLoop(v, cache, list, i + 1, Append(failed, Failure(list[i], MissingId)),
               Append(answered, Reply("none", None, "none")))
  ELSE IF v = "id"
  THEN [pc |-> "fetching", idx |-> i, failed |-> failed,
        pid |-> list[i].nhl_player_id[1], searched |-> 0, answered |-> answered]
  ELSE IF cache = None
  THEN [pc |-> "loading", idx |-> i, failed |-> failed, pid |-> 0, searched |-> 1,
        answered |-> answered]
  ELSE LET found == SearchNHLPlayers(v, cache[1], list[i].name)
       IN IF found = <<>>
          THEN LET rest == RunLoop(v, cache, list, i + 1,
                                   Append(failed, Failure(list[i], NotFetched(v))),
                                   Append(answered, Reply("notfound", None, "none")))
               IN [rest EXCEPT !.searched = @ + 1]
          ELSE [pc |-> "fetching", idx |-> i, failed |-> failed,
                pid |-> found[1].id, searched |-> 1, answered |-> answered]

\* the handler runs its loop over list from player i on
Resume(list, cache, i, failed, answered) ==
  LET next == RunLoop(variant, cache, list, i, failed, answered)
  IN /\ rpc' = next.pc
     /\ rIdx' = next.idx
     /\ rPid' = next.pid
     /\ failedPlayers' = next.failed
     /\ replies' = next.answered
     /\ searchCalls' = searchCalls + next.searched
     /\ bulkFetches' = IF next.pc = "loading" THEN bulkFetches + 1 ELSE bulkFetches
     /\ overlapped' = (overlapped \/ (next.pc = "loading"
                                        /\ \E c \in Callers : calls[c].pc = "fetching"))
     /\ loading' = IF next.pc = "reloading" THEN TRUE ELSE loading

\* the refresh button's disabled prop
RefreshDisabledOnlyEmpty(list, refreshing) == Len(list) = 0

RefreshDisabled(list, refreshing) == Len(list) = 0 \/ refreshing

\* the click on 'Refresh All Stats'
RefreshStart ==
  /\ ~RefreshDisabled(players, isRefreshing)
  /\ batches < MaxBatches
  /\ batches' = batches + 1
  /\ isRefreshing' = TRUE
  /\ updatedCount' = 0
  /\ batch' = players
  /\ rowsAtStart' = rows
  /\ IF variant = "id"
     THEN /\ rpc' = "importing" /\ rIdx' = 1 /\ rPid' = 0
          /\ failedPlayers' = <<>> /\ replies' = <<>>
          /\ UNCHANGED <<searchCalls, bulkFetches, overlapped, loading>>
     ELSE Resume(players, cachedPlayers, 1, <<>>, <<>>)
  /\ UNCHANGED <<variant, rows, clock, players, mountLoad, nhlStats, rNow, alerts,
                 statsCall, cachedPlayers, bulkFailed, formVars>>
  /\ UNCHANGED <<crudVars, seasonVars, viewVars, selectVars>>

\* await import('./lib/nhlApi') settles.  AddPlayerForm imports the same
\* module statically, so it is loaded before App renders and the dynamic
\* import resolves with it.
ImportReturn ==
  /\ rpc = "importing"
  /\ Resume(batch, cachedPlayers, 1, <<>>, <<>>)
  /\ UNCHANGED <<variant, rows, clock, players, mountLoad, isRefreshing, batch,
                 updatedCount, nhlStats, rNow, rowsAtStart, alerts, batches, statsCall,
                 cachedPlayers, bulkFailed, formVars>>
  /\ UNCHANGED <<crudVars, seasonVars, viewVars, selectVars>>

\* getNHLPlayerStats(player.name) of the legacy revision: the bulk fetch of
\* its searchNHLPlayers call comes back
RefreshBulkReturn(resp) ==
  /\ rpc = "loading"
  /\ LET loaded == LoadAllPlayers(variant, cachedPlayers, resp)
         found == SearchNHLPlayers(variant, loaded.map, batch[rIdx].name)
     IN /\ cachedPlayers' = loaded.cache
        /\ bulkFailed' = IF loaded.map = <<>> THEN bulkFailed + 1 ELSE bulkFailed
        /\ IF found = <<>>
           THEN Resume(batch, loaded.cache, rIdx + 1,
                       Append(failedPlayers, Failure(batch[rIdx], NotFetched(variant))),
                       Append(replies, Reply("notfound", None, "none")))
           ELSE /\ rpc' = "fetching" /\ rPid' = found[1].id
                /\ UNCHANGED <<rIdx, failedPlayers, replies, searchCalls, bulkFetches,
                               overlapped, loading>>
  /\ UNCHANGED <<variant, rows, clock, players, mountLoad, isRefreshing, batch,
                 updatedCount, nhlStats, rNow, rowsAtStart, alerts, batches, statsCall, formVars>>
  /\ UNCHANGED <<crudVars, seasonVars, viewVars, selectVars>>

\* "Only update if there are games played"
SkipsUpdateNever(stats) == FALSE

SkipsUpdate(stats) == stats.totalGames = 0

Searched(v) == IF v = "id" THEN "none" ELSE "found"

\* the getNHLPlayerStats call of the loop body returns
RefreshFetchReturn(resp, date, now) ==
  /\ rpc = "fetching"
  /\ LET result == GetNHLPlayerStats(variant, rPid, resp, date)
     IN /\ statsCall' = Some([playerId |-> rPid, resp |-> resp, date |-> date,
                              result |-> result])
        /\ IF result = None
           THEN /\ Resume(batch, cachedPlayers, rIdx + 1,
                          Append(failedPlayers, Failure(batch[rIdx], NotFetched(variant))),
                          Append(replies, Reply(Searched(variant), None, "none")))
                /\ UNCHANGED <<nhlStats, rNow, clock>>
           ELSE IF SkipsUpdate(result[1])
           THEN /\ Resume(batch, cachedPlayers, rIdx + 1,
                          Append(failedPlayers, Failure(batch[rIdx], NoGames)),
                          Append(replies, Reply(Searched(variant), Some(result[1].totalGames),
                                                "none")))
                /\ UNCHANGED <<nhlStats, rNow, clock>>
           ELSE /\ rpc' = "writing"
                /\ nhlStats' = result
                /\ rNow' = now /\ clock' = now
                /\ UNCHANGED <<rIdx, rPid, failedPlayers, replies, searchCalls, bulkFetches,
                               overlapped, loading>>
  /\ UNCHANGED <<variant, rows, players, mountLoad, isRefreshing, batch, updatedCount,
                 rowsAtStart, alerts, batches, cachedPlayers, bulkFailed, formVars>>
  /\ UNCHANGED <<crudVars, seasonVars, viewVars, selectVars>>

\* the object handed to update() by the loop body
RefreshUpdateSwapped(stats, now) ==
  [points_games |-> stats.totalGames, points_total_games |-> stats.pointsGames,
   shots_games |-> stats.shots, shots_total_games |-> stats.totalGames,
   updated_at |-> now]

RefreshUpdate(stats, now) ==
  [points_games |-> stats.pointsGames, points_total_games |-> stats.totalGames,
   shots_games |-> stats.shots, shots_total_games |-> stats.totalGames,
   updated_at |-> now]

\* update(fields).eq('id', id): the matching row, if any, takes the fields
ApplyUpdateNoFilter(table, id, fields) ==
  [i \in DOMAIN table |->
     [f \in DOMAIN table[i] |-> IF f \in DOMAIN fields THEN fields[f] ELSE table[i][f]]]

ApplyUpdate(table, id, fields) ==
  IF id \in DOMAIN table
  THEN [table EXCEPT ![id] =
          [f \in DOMAIN @ |-> IF f \in DOMAIN fields THEN fields[f] ELSE @[f]]]
  ELSE table

\* if (error) push 'Database update failed' else updatedCount++; a throw
\* lands in the catch block, which pushes the message of what was thrown
UpdatedAfterAlways(outcome, count) == count + 1

UpdatedAfter(outcome, count) == IF outcome = "ok" THEN count + 1 ELSE count

FailedAfterThrowLost(outcome, reason, player, failed) ==
  IF outcome = "error" THEN Append(failed, Failure(player, DbFailed)) ELSE failed

FailedAfter(outcome, reason, player, failed) ==
  IF outcome = "ok" THEN failed
  ELSE Append(failed, Failure(player, IF outcome = "error" THEN DbFailed ELSE reason))

\* the update of the loop body returns: without error, with an error, or
\* the await throws
RefreshWriteReturn(outcome, reason) ==
  /\ rpc = "writing"
  /\ rows' = IF outcome = "ok"
             THEN ApplyUpdate(rows, batch[rIdx].id, RefreshUpdate(nhlStats[1], rNow))
             ELSE rows
  /\ updatedCount' = UpdatedAfter(outcome, updatedCount)
  /\ Resume(batch, cachedPlayers, rIdx + 1,
            FailedAfter(outcome, reason, batch[rIdx], failedPlayers),
            Append(replies, Reply(Searched(variant), Some(nhlStats[1].totalGames), outcome)))
  /\ UNCHANGED <<variant, clock, players, mountLoad, isRefreshing, batch, nhlStats, rNow,
                 rowsAtStart, alerts, batches, statsCall, cachedPlayers, bulkFailed, formVars>>
  /\ UNCHANGED <<crudVars, seasonVars, viewVars, selectVars>>

\* the text of the end-of-batch alert
SummaryDropsFailures(v, updated, failed) ==
  [text |-> "Stats Refresh Complete", updated |-> updated, failures |-> <<>>]

Summary(v, updated, failed) ==
  IF v = "id" THEN [text |-> "Stats Refresh Complete", updated |-> updated, failures |-> failed]
  ELSE IF updated > 0 THEN [text |-> "Updated", updated |-> updated, failures |-> failed]
  ELSE [text |-> "No stats were updated", updated |-> 0, failures |-> failed]

\* the loadPlayers after the loop returns; the flag is cleared, the summary shown
RefreshReloadReturn(ok) ==
  /\ rpc = "reloading"
  /\ players' = IF ok THEN ListAll(rows) ELSE players
  /\ loading' = FALSE
  /\ isRefreshing' = FALSE
  /\ alerts' = Append(alerts, Summary(variant, updatedCount, failedPlayers))
  /\ rpc' = "idle"
  /\ statsCall' = None
  /\ UNCHANGED <<variant, rows, clock, mountLoad, batch, rIdx, rPid, updatedCount,
                 failedPlayers, replies, nhlStats, rNow, rowsAtStart, batches, cacheVars,
                 formVars>>
  /\ UNCHANGED <<crudVars, seasonVars, viewVars, selectVars>>

\* the calls a batch waits for
RefreshReturns ==
  \/ ImportReturn
  \/ \E resp \in BulkResponses(variant) : RefreshBulkReturn(resp)
  \/ \E resp \in StatsResponses(variant, rPid), date \in Dates :
       \E now \in {clock, clock + 1} : now <= MaxClock /\ RefreshFetchReturn(resp, date, now)
  \/ \E outcome \in {"ok", "error"} : RefreshWriteReturn(outcome, DbFailed)
  \/ \E reason \in Thrown : RefreshWriteReturn("throw", reason)
  \/ \E ok \in BOOLEAN : RefreshReloadReturn(ok)

NextRefresh ==
  \/ \E ok \in BOOLEAN : LoadPlayersReturn(ok)
  \/ RefreshStart
  \/ RefreshReturns

SpecRefresh == Init /\ [][NextRefresh]_vars

\* every remote and storage call of a batch eventually returns or fails
FairRefresh == SpecRefresh /\ WF_vars(RefreshReturns)

\* ------------------------------------- PlayerRow and App: ratios, sorting
\* a JS number: a fraction with a positive denominator, NaN or Infinity
Number(num, den) == [kind |-> "number", num |-> num, den |-> den]
Zero == Number(0, 1)
NaN == [kind |-> "NaN", num |-> 0, den |-> 0]
Infinity == [kind |-> "Infinity", num |-> 0, den |-> 0]

\* a / b on integers a >= 0, b >= 0
Divide(a, b) ==
  IF b = 0 THEN (IF a = 0 THEN NaN ELSE Infinity) ELSE Number(a, b)

\* x * 100
Times100(x) == IF x.kind = "number" THEN Number(100 * x.num, x.den) ELSE x

\* b - a
Minus(b, a) ==
  IF a.kind = "NaN" \/ b.kind = "NaN" \/ (a.kind = "Infinity" /\ b.kind = "Infinity") THEN NaN
  ELSE IF b.kind = "Infinity" THEN Infinity
  ELSE IF a.kind = "Infinity" THEN [kind |-> "-Infinity", num |-> 0, den |-> 0]
  ELSE Number(b.num * a.den - a.num * b.den, a.den * b.den)

RECURSIVE Pow10(_)
Pow10(d) == IF d = 0 THEN 1 ELSE 10 * Pow10(d - 1)

RECURSIVE PadZeros(_, _)
PadZeros(digits, d) == IF Len(digits) >= d THEN digits ELSE PadZeros(<<"0">> \o digits, d)

\* x.toFixed(d) for x >= 0: rounded to d decimals, half up
ToFixed(x, d) ==
  IF x.kind = "NaN" THEN <<"N", "a", "N">>
  ELSE IF x.kind # "number" THEN <<"I", "n", "f", "i", "n", "i", "t", "y">>
  ELSE LET scaled == (2 * x.num * Pow10(d) + x.den) \div (2 * x.den)
       IN NumberToString(scaled \div Pow10(d)) \o <<".">>
            \o PadZeros(NumberToString(scaled % Pow10(d)), d)

\* PlayerRow: pointsAverage and shotsPerGame
PointsAverageUnguarded(player) == Divide(player.points_games, player.points_total_games)

PointsAverage(player) ==
  IF player.points_total_games > 0
  THEN Divide(player.points_games, player.points_total_games)
  ELSE Zero

ShotsPerGame(player) ==
  IF player.shots_total_games > 0
  THEN Divide(player.shots_games, player.shots_total_games)
  ELSE Zero

\* legacy PlayerRow: pointsPercentage and shotsPercentage, as shown
PointsPercentage(player) ==
  IF player.points_total_games > 0
  THEN ToFixed(Times100(Divide(player.points_games, player.points_total_games)), 1)
  ELSE <<"0", ".", "0">>

ShotsPercentage(player) ==
  IF player.shots_total_games > 0
  THEN ToFixed(Times100(Divide(player.shots_games, player.shots_total_games)), 1)
  ELSE <<"0", ".", "0">>

\* what a row shows in its points and shots ratio cells
PointsShown(v, player) ==
  IF v = "id" THEN ToFixed(PointsAverage(player), 2) ELSE PointsPercentage(player)

ShotsShown(v, player) ==
  IF v = "id" THEN ToFixed(ShotsPerGame(player), 2) ELSE ShotsPercentage(player)

\* App.sortedPlayers: aAvg / bAvg of the comparator
SortKeys == {"name", "points", "shots"}

SortAverage(key, player) ==
  IF key = "points"
  THEN (IF player.points_total_games > 0
        THEN Divide(player.points_games, player.points_total_games) ELSE Zero)
  ELSE (IF player.shots_total_games > 0
        THEN Divide(player.shots_games, player.shots_total_games) ELSE Zero)

\* the comparator's return value
SortCompare(key, a, b) ==
  IF key = "name" THEN Number(LocaleCompare(ToLowerCase(a.name), ToLowerCase(b.name)), 1)
  ELSE Minus(SortAverage(key, b), SortAverage(key, a))

\* [...players].sort(comparator); a NaN from the comparator counts as 0
SortedPlayers(list, key) ==
  LET cmp == [pr \in Range(list) \X Range(list) |->
                LET c == SortCompare(key, pr[1], pr[2])
                IN IF c.kind = "number" THEN c.num
                   ELSE IF c.kind = "Infinity" THEN 1
                   ELSE IF c.kind = "-Infinity" THEN -1 ELSE 0]
  IN SortBy(list, cmp)

\* a click on a column's sort button
SetSortBy(key) ==
  /\ key # sortBy
  /\ sortBy' = key
  /\ UNCHANGED <<appVars, refreshVars, cacheVars, formVars, crudVars, seasonVars, selectVars>>

\* ------------------------------------ AddPlayerForm: handleSelectPlayer
CouldNotFetchStats(name) == <<"Could not fetch stats for">> \o name

\* the submit button's disabled prop
SubmitDisabled(draft, fetching) == Trim(draft.name) = <<>> \/ fetching

\* a click on a search result, up to the await of getNHLPlayerStats; the
\* result list is shown while it is non-empty and nothing is selected
HandleSelectPlayer(player) ==
  /\ selectedPlayer = None
  /\ \E i \in 1..Len(searchResults) : i <= 10 /\ searchResults[i] = player
  /\ Len(statFetches) < MaxFetches
  /\ selectedPlayer' = Some(player)
  /\ searchResults' = <<>>
  /\ isFetchingStats' = TRUE
  /\ statFetches' = Append(statFetches, player)
  /\ UNCHANGED <<newPlayer, calls, debouncedSearchQuery, isSearching>>
  /\ UNCHANGED <<appVars, refreshVars, cacheVars, crudVars, seasonVars, viewVars>>

\* setNewPlayer of handleSelectPlayer, with the stats or with zeros
DraftAfterStats(prev, player, stats) ==
  IF stats # None
  THEN [prev EXCEPT !.name = player.name, !.nhl_player_id = player.id,
                    !.points_games = stats[1].pointsGames,
                    !.points_total_games = stats[1].totalGames,
                    !.shots_games = stats[1].shots,
                    !.shots_total_games = stats[1].totalGames]
  ELSE [prev EXCEPT !.name = player.name, !.nhl_player_id = player.id,
                    !.points_games = 0, !.points_total_games = 0,
                    !.shots_games = 0, !.shots_total_games = 0]

\* the getNHLPlayerStats call of the i-th handleSelectPlayer in flight returns
SelectStatsReturn(i, resp) ==
  /\ i \in 1..Len(statFetches)
  /\ LET player == statFetches[i]
         stats == GetNHLPlayerStats(variant, player.id, resp, today)
     IN /\ newPlayer' = DraftAfterStats(newPlayer, player, stats)
        /\ notices' = IF stats = None THEN Append(notices, CouldNotFetchStats(player.name))
                      ELSE notices
  /\ isFetchingStats' = FALSE
  /\ statFetches' = SubSeq(statFetches, 1, i - 1) \o SubSeq(statFetches, i + 1, Len(statFetches))
  /\ UNCHANGED <<selectedPlayer, ops, writeCount, answers, nextId>>
  /\ UNCHANGED <<appVars, refreshVars, cacheVars, formVars, seasonVars, viewVars>>

\* the X button shown next to a selected player
ClearSelection ==
  /\ selectedPlayer # None
  /\ selectedPlayer' = None
  /\ newPlayer' = [newPlayer EXCEPT !.name = <<>>, !.nhl_player_id = 0]
  /\ UNCHANGED <<isFetchingStats, statFetches>>
  /\ UNCHANGED <<appVars, refreshVars, cacheVars, formVars, crudVars, seasonVars, viewVars>>

NextSelect ==
  \/ \E c \in Callers, q \in Queries : PerformSearch(c, q)
  \/ \E player \in Range(searchResults) : HandleSelectPlayer(player)
  \/ \E i \in 1..MaxFetches :
       \E resp \in IF i <= Len(statFetches) THEN StatsResponses(variant, statFetches[i].id)
                   ELSE {} : SelectStatsReturn(i, resp)
  \/ ClearSelection

\* the form of the identifier-based revision once the directory is cached
InitSelect ==
  /\ InitCommon
  /\ variant = "id"
  /\ today = Epoch
  /\ rows = <<>>
  /\ cachedPlayers \in {Some(MapFromList(d)) : d \in Directories}
  /\ searchCalls = 0 /\ bulkFetches = 1

SpecSelect == InitSelect /\ [][NextSelect]_vars

\* ------------------------------------- App: add / update / delete handlers
\* the options of the threshold select, in tenths
Thresholds == {0, 15, 25}

FailedToAdd == "Failed to add player"
FailedToUpdate == "Failed to update player"
FailedToDelete == "Failed to delete player"

FailedText(kind) ==
  IF kind = "add" THEN FailedToAdd
  ELSE IF kind = "update" THEN FailedToUpdate ELSE FailedToDelete

\* the newPlayer AddPlayerForm submits after handleSelectPlayer: the selected
\* directory entry with the fetched figures, or with zeros when the fetch
\* gave no result or no games
Drafts(v) ==
  {[name |-> ConnorMcDavid,
    nhl_player_id |-> IF v = "id" THEN Some(4) ELSE None,
    points_games |-> f[1], points_total_games |-> f[2],
    shots_threshold |-> t,
    shots_games |-> f[3], shots_total_games |-> f[2]] :
     f \in {<<0, 0, 0>>, <<3, 10, 5>>}, t \in {15}}

\* the number a sequence of decimal digits writes
RECURSIVE DigitsValue(_)
DigitsValue(digits) ==
  IF digits = <<>> THEN 0
  ELSE 10 * DigitsValue(SubSeq(digits, 1, Len(digits) - 1))
         + (IndexOf(DigitChars, digits[Len(digits)]) - 1)

\* parseInt(e.target.value) || 0 on the text of a number input: empty,
\* digits, or a minus sign and digits
ParseIntOrZero(text) ==
  IF text = <<>> THEN 0
  ELSE IF Head(text) = "-" THEN 0 - DigitsValue(Tail(text))
  ELSE DigitsValue(text)

\* what the user leaves in the total-games input of the legacy row editor
TypedTotals == {<<>>, <<"-", "1">>}

\* the updates PlayerRow.handleSave passes to onUpdate for the row it shows:
\* the threshold alone, or (legacy row editor) all six edited fields
RowUpdates(v, player) ==
  IF v = "id"
  THEN {[shots_threshold |-> t] : t \in Thresholds}
  ELSE {[name |-> player.name, points_games |-> player.points_games,
         points_total_games |-> g, shots_threshold |-> player.shots_threshold,
         shots_games |-> player.shots_games, shots_total_games |-> player.shots_total_games] :
          g \in {player.points_total_games} \cup {ParseIntOrZero(t) : t \in TypedTotals}}

\* { ...updates, updated_at: new Date().toISOString() }
WithUpdatedAt(updates, now) ==
  [f \in DOMAIN updates \cup {"updated_at"} |->
     IF f = "updated_at" THEN now ELSE updates[f]]

\* insert([newPlayer]): the row the table stores, with its defaults
InsertedRow(draft, id, now) ==
  [id |-> id, name |-> draft.name, nhl_player_id |-> draft.nhl_player_id,
   points_games |-> draft.points_games, points_total_games |-> draft.points_total_games,
   shots_threshold |-> draft.shots_threshold,
   shots_games |-> draft.shots_games, shots_total_games |-> draft.shots_total_games,
   created_at |-> now, updated_at |-> now]

ApplyInsert(table, id, draft, now) ==
  [i \in DOMAIN table \cup {id} |->
     IF i = id THEN InsertedRow(draft, id, now) ELSE table[i]]

\* delete().eq('id', id): the matching row, if any, is removed
ApplyDelete(table, id) == [i \in DOMAIN table \ {id} |-> table[i]]

\* the table and its rows are rendered only while the list is not loading
RowsShown == ~loading

\* the handler instance a new call runs in
FreeHandler(k) ==
  /\ ops[k].pc = "idle"
  /\ \A j \in Handlers : j < k => ops[j].pc # "idle"
  /\ writeCount < MaxWrites

\* handleSubmit -> handleAddPlayer: the insert is issued
AddClick(k, draft) ==
  /\ FreeHandler(k)
  /\ Trim(draft.name) # <<>>
  /\ ops' = [ops EXCEPT ![k] = [kind |-> "add", pc |-> "writing", id |-> 0, fields |-> draft]]
  /\ writeCount' = writeCount + 1
  /\ UNCHANGED <<appVars, refreshVars, cacheVars, formVars, notices, answers, nextId,
                 seasonVars, viewVars, selectVars>>

\* PlayerRow.handleSave -> handleUpdatePlayer for a listed player: the update
\* is issued, stamped with the time of the call
UpdateClick(k, i, updates, now) ==
  /\ FreeHandler(k)
  /\ RowsShown
  /\ i \in 1..Len(players)
  /\ updates \in RowUpdates(variant, players[i])
  /\ ops' = [ops EXCEPT ![k] = [kind |-> "update", pc |-> "writing", id |-> players[i].id,
                                fields |-> WithUpdatedAt(updates, now)]]
  /\ clock' = now
  /\ writeCount' = writeCount + 1
  /\ UNCHANGED <<variant, rows, players, loading, mountLoad, refreshVars, cacheVars,
                 formVars, notices, answers, nextId, seasonVars, viewVars, selectVars>>

\* the delete button of a listed player, confirmed: the delete is issued
DeleteClick(k, i) ==
  /\ FreeHandler(k)
  /\ RowsShown
  /\ i \in 1..Len(players)
  /\ ops' = [ops EXCEPT ![k] = [kind |-> "delete", pc |-> "writing", id |-> players[i].id,
                                fields |-> <<>>]]
  /\ writeCount' = writeCount + 1
  /\ UNCHANGED <<appVars, refreshVars, cacheVars, formVars, notices, answers, nextId,
                 seasonVars, viewVars, selectVars>>

\* what a write that the storage layer accepts does to the table
Written(table, op, id, now) ==
  IF op.kind = "add" THEN ApplyInsert(table, id, op.fields, now)
  ELSE IF op.kind = "update" THEN ApplyUpdate(table, op.id, op.fields)
  ELSE ApplyDelete(table, op.id)

\* if (error) alert(...) else await loadPlayers()
TakesFailurePathNever(error) == FALSE

TakesFailurePath(error) == error

\* the awaited insert/update/delete returns { error }: the storage layer has
\* applied the write unless it rejected it
WriteReturn(k, error) ==
  /\ ops[k].pc = "writing"
  /\ answers' = Append(answers, [kind |-> ops[k].kind, id |-> ops[k].id, error |-> error])
  /\ rows' = IF error THEN rows ELSE Written(rows, ops[k], nextId, clock)
  /\ nextId' = IF ~error /\ ops[k].kind = "add" THEN nextId + 1 ELSE nextId
  /\ IF TakesFailurePath(error)
     THEN /\ notices' = Append(notices, FailedText(ops[k].kind))
          /\ ops' = [ops EXCEPT ![k] = IdleOp]
          /\ UNCHANGED loading
     ELSE /\ ops' = [ops EXCEPT ![k].pc = "listing"]
          /\ loading' = TRUE
          /\ UNCHANGED notices
  /\ UNCHANGED <<variant, clock, players, mountLoad, refreshVars, cacheVars, formVars,
                 writeCount, seasonVars, viewVars, selectVars>>

\* the loadPlayers of the success path returns
ListReturn(k, ok) ==
  /\ ops[k].pc = "listing"
  /\ players' = IF ok THEN ListAll(rows) ELSE players
  /\ loading' = FALSE
  /\ ops' = [ops EXCEPT ![k] = IdleOp]
  /\ UNCHANGED <<variant, rows, clock, mountLoad, refreshVars, cacheVars, formVars,
                 notices, writeCount, answers, nextId, seasonVars, viewVars, selectVars>>

NextCrud ==
  \/ \E ok \in BOOLEAN : LoadPlayersReturn(ok)
  \/ \E k \in Handlers : \E draft \in Drafts(variant) : AddClick(k, draft)
  \/ \E k \in Handlers, i \in 1..MaxRows + MaxWrites :
       \E now \in {clock, clock + 1} :
         /\ now <= MaxClock
         /\ i <= Len(players)
         /\ \E updates \in RowUpdates(variant, players[i]) : UpdateClick(k, i, updates, now)
  \/ \E k \in Handlers, i \in 1..MaxRows + MaxWrites : DeleteClick(k, i)
  \/ \E k \in Handlers, error \in BOOLEAN : WriteReturn(k, error)
  \/ \E k \in Handlers, ok \in BOOLEAN : ListReturn(k, ok)
  \/ \E key \in SortKeys : SetSortBy(key)

\* the tables the handlers start from: up to MaxRows rows, each with the
\* provider id of its revision
InitCrud ==
  /\ InitCommon
  /\ today = Epoch
  /\ rows \in {[i \in 1..n |-> InitialRow(i, IF variant = "id" THEN "set" ELSE "unset")] :
                 n \in 0..MaxRows}
  /\ cachedPlayers = None
  /\ searchCalls = 0 /\ bulkFetches = 0

SpecCrud == InitCrud /\ [][NextCrud]_vars

\* ------------------------------------------ lib/nhlApi: the season resolver
\* the dates new Date() may give: every month of years on both sides of a
\* change of decade and of century
SeasonYears == {1999, 2000, 2025, 2026}
SeasonDates == {[year |-> y, month |-> m] : y \in SeasonYears, m \in 0..11}

NotBefore(d, e) == d.year > e.year \/ (d.year = e.year /\ d.month >= e.month)

\* a getNHLPlayerStats call resolves the season on the date it runs
SeasonCall(date) ==
  /\ seasonCalls < MaxSeasonCalls
  /\ NotBefore(date, today)
  /\ today' = date
  /\ season' = Some(GetCurrentNHLSeason(date))
  /\ seasonCalls' = seasonCalls + 1
  /\ UNCHANGED <<appVars, refreshVars, cacheVars, formVars, crudVars, viewVars, selectVars>>

NextSeason == \E date \in SeasonDates : SeasonCall(date)

InitSeason ==
  /\ InitCommon
  /\ today \in SeasonDates
  /\ rows = <<>>
  /\ cachedPlayers = None
  /\ searchCalls = 0 /\ bulkFetches = 0

SpecSeason == InitSeason /\ [][NextSeason]_vars

\* ------------------------- legacy PlayerRow: a save with nothing changed
\* editedPlayer as useState(player) set it when the row was mounted, passed
\* to onUpdate by handleSave
SavedUnchanged(player) ==
  [name |-> player.name, points_games |-> player.points_games,
   points_total_games |-> player.points_total_games,
   shots_threshold |-> player.shots_threshold,
   shots_games |-> player.shots_games, shots_total_games |-> player.shots_total_games]

\* Edit, then Save, on row i
SaveUnchangedClick(k, i, now) ==
  /\ writeCount < MaxSaves
  /\ i \in 1..Len(players)
  /\ UpdateClick(k, i, SavedUnchanged(players[i]), now)

\* the legacy page with the directory cached: a refresh batch and an
\* unchanged save side by side
NextEdit ==
  \/ \E ok \in BOOLEAN : LoadPlayersReturn(ok)
  \/ RefreshStart
  \/ \E resp \in StatsResponses(variant, rPid), date \in Dates :
       \E now \in {clock, clock + 1} : now <= MaxClock /\ RefreshFetchReturn(resp, date, now)
  \/ \E outcome \in {"ok", "error"} : RefreshWriteReturn(outcome, DbFailed)
  \/ \E ok \in BOOLEAN : RefreshReloadReturn(ok)
  \/ \E k \in Handlers, i \in 1..MaxRows :
       \E now \in {clock, clock + 1} : now <= MaxClock /\ SaveUnchangedClick(k, i, now)
  \/ \E k \in Handlers, error \in BOOLEAN : WriteReturn(k, error)
  \/ \E k \in Handlers, ok \in BOOLEAN : ListReturn(k, ok)

InitEdit ==
  /\ InitCommon
  /\ variant = "name"
  /\ today = Epoch
  /\ rows \in {[i \in 1..n |-> InitialRow(i, "unset")] : n \in 1..MaxEditRows}
  /\ cachedPlayers = Some(MapFromList(<<Entry(1), Entry(4), Entry(2)>>))
  /\ searchCalls = 0 /\ bulkFetches = 1

SpecEdit == InitEdit /\ [][NextEdit]_vars

Next == NextSearch \/ NextRefresh \/ NextCrud \/ NextSeason \/ NextSelect \/ NextEdit

Spec == Init /\ [][Next]_vars

\* ================================================================ claims
Figures(r) == <<r.points_games, r.points_total_games, r.shots_games, r.shots_total_games>>

FailuresOf(name) == SelectSeq(failedPlayers, LAMBDA f : f.name = name)

NoUsableId(player) == player.nhl_player_id = None \/ player.nhl_player_id = Some(0)

InLoop == rpc \in {"loading", "fetching", "writing"}
BatchOver == batches > 0 /\ rpc \in {"reloading", "idle"}

\* C1: a player whose stats fetch succeeds with totalGames = 0 gets exactly
\* the failure 'No games played this season', no storage write is issued for
\* it, and its row keeps the four figures it had when the batch started.
C1_ZeroGamesKeepsFigures ==
  batches > 0 =>
    \A i \in 1..Len(replies) :
      replies[i].games = Some(0) =>
        /\ FailuresOf(batch[i].name) = <<[name |-> batch[i].name, reason |-> NoGames]>>
        /\ replies[i].wrote = "none"
        /\ batch[i].id \in DOMAIN rows
        /\ Figures(rows[batch[i].id]) = Figures(rowsAtStart[batch[i].id])
        /\ Figures(rows[batch[i].id]) # <<0, 0, 0, 0>>

C1_Witness ==
  /\ BatchOver
  /\ \E i \in 1..Len(replies) :
       /\ replies[i].games = Some(0)
       /\ Figures(rows[batch[i].id]) = <<4, 6, 9, 6>>
  /\ updatedCount > 0

\* C2: in the id-based revision a player whose provider identifier is unset
\* or 0 gets exactly the failure 'Missing NHL Player ID', no stats fetch and
\* no storage write are issued for it (its row is untouched), and the loop
\* goes on with the next player.
C2_MissingIdSkipped ==
  (variant = "id" /\ batches > 0) =>
    /\ \A i \in 1..Len(replies) :
         NoUsableId(batch[i]) =>
           /\ FailuresOf(batch[i].name) = <<[name |-> batch[i].name, reason |-> MissingId]>>
           /\ replies[i] = Reply("none", None, "none")
           /\ rows[batch[i].id] = rowsAtStart[batch[i].id]
    /\ InLoop => /\ rIdx = Len(replies) + 1 /\ rIdx <= Len(batch)
                 /\ ~NoUsableId(batch[rIdx])
                 /\ rPid = batch[rIdx].nhl_player_id[1]
    /\ BatchOver => Len(replies) = Len(batch)
    /\ statsCall # None => statsCall[1].playerId # 0

C2_Witness ==
  /\ variant = "id" /\ rpc = "writing" /\ rIdx = 3
  /\ batch[1].nhl_player_id = None /\ batch[2].nhl_player_id = Some(0)
  /\ Len(failedPlayers) = 2

\* the step that counts a player as updated, and the three-player batch
C3_CountedWriteStep ==
  updatedCount' = updatedCount + 1 =>
    LET snap == statsCall[1].result[1]
        row == rows'[batch[rIdx].id]
    IN /\ rpc = "writing"
       /\ row.points_games = snap.pointsGames
       /\ row.points_total_games = snap.totalGames
       /\ row.shots_games = snap.shots
       /\ row.shots_total_games = snap.totalGames

C3_Scenario ==
  (variant = "id" /\ BatchOver /\ Len(batch) = 3 /\ Len(replies) = 3
     /\ \E i, j, k \in 1..3 :
          /\ {i, j, k} = 1..3
          /\ batch[i].nhl_player_id = Some(0)
          /\ replies[j].games = Some(0)
          /\ replies[k].games = Some(10) /\ replies[k].wrote = "ok")
  => /\ updatedCount = 1
     /\ Len(failedPlayers) = 2
     /\ {failedPlayers[1].reason, failedPlayers[2].reason} = {MissingId, NoGames}

\* C3: the write that is counted in updatedCount stores exactly the fetched
\* snapshot's pointsGames, totalGames, shots and totalGames; a batch over a
\* player with provider id 0, one whose fetch returns totalGames 0 and one
\* whose fetch returns totalGames 10 and whose write succeeds ends with
\* updatedCount = 1 and two failures with the two distinct reasons.
C3_SnapshotStored == [][C3_CountedWriteStep]_vars /\ []C3_Scenario

C3_Witness ==
  /\ variant = "id" /\ BatchOver /\ Len(replies) = 3
  /\ batch[1].nhl_player_id = Some(0)
  /\ replies[2].games = Some(0)
  /\ replies[3] = Reply("none", Some(10), "ok")
  /\ Figures(rows[batch[3].id]) = <<3, 10, 5, 10>>

\* the failure record (or none) that the answers for player i call for
RecordedFor(i) ==
  LET p == batch[i]
      r == replies[i]
      f == FailuresOf(p.name)
      one(reason) == f = <<[name |-> p.name, reason |-> reason]>>
  IN IF variant = "id" /\ NoUsableId(p) THEN one(MissingId)
     ELSE IF r.searched = "notfound" \/ r.games = None THEN one(NotFetched(variant))
     ELSE IF r.games = Some(0) THEN one(NoGames)
     ELSE IF r.wrote = "error" THEN one(DbFailed)
     ELSE IF r.wrote = "throw" THEN \E reason \in Thrown : one(reason)
     ELSE f = <<>> /\ r.wrote = "ok"

\* C4: whatever fails for a player (missing identifier, no fetch result,
\* zero games, storage error, exception), the loop goes on: a batch ends only
\* after every player has been processed, and what is recorded for a player
\* follows from what was answered for that player alone.
C4_FailureNeverAborts ==
  batches > 0 =>
    /\ rpc \in {"importing", "loading", "fetching", "writing", "reloading", "idle"}
    /\ \A i \in 1..Len(replies) : RecordedFor(i)
    /\ InLoop => Len(replies) = rIdx - 1 /\ rIdx <= Len(batch)
    /\ BatchOver => Len(replies) = Len(batch) /\ rIdx = Len(batch) + 1

C4_Witness ==
  /\ BatchOver /\ Len(batch) = 3
  /\ replies[1].games = None
  /\ replies[2].wrote \in {"error", "throw"}
  /\ replies[3].wrote = "ok"

\* the players the loop has finished with
Processed == IF rpc = "importing" THEN 0 ELSE rIdx - 1

\* C5: every player processed so far has one outcome, an increment of
\* updatedCount or one failure record, never both and never neither; at the
\* end updatedCount + the number of failures is the number of players.
C5_OneOutcomeEach ==
  batches > 0 =>
    /\ updatedCount + Len(failedPlayers) = Processed
    /\ updatedCount = Cardinality({i \in 1..Len(replies) : replies[i].wrote = "ok"})
    /\ \A i \in 1..Processed :
         /\ Len(FailuresOf(batch[i].name)) <= 1
         /\ (Len(FailuresOf(batch[i].name)) = 1) # (replies[i].wrote = "ok")
    /\ BatchOver => updatedCount + Len(failedPlayers) = Len(batch)

C5_Witness ==
  /\ rpc = "fetching" /\ rIdx = 3 /\ updatedCount = 1 /\ Len(failedPlayers) = 1

\* C6: under the fairness of FairRefresh every started batch completes; it
\* completes only from the re-listing that follows the whole list, and the
\* step that clears isRefreshing shows the one summary of the batch, which
\* carries every recorded failure; no other step shows a summary.
C6_BatchCompletes ==
  /\ [](isRefreshing => <>(~isRefreshing /\ rpc = "idle"))
  /\ [][(isRefreshing /\ ~isRefreshing') =>
          /\ rpc = "reloading" /\ rIdx = Len(batch) + 1
          /\ Len(replies) = Len(batch)
          /\ Len(alerts') = Len(alerts) + 1
          /\ alerts'[Len(alerts')].failures = failedPlayers
          /\ alerts'[Len(alerts')].updated = updatedCount
          /\ Len(failedPlayers) + updatedCount = Len(batch)
          /\ rpc' = "idle"]_vars
  /\ [][alerts' # alerts => (isRefreshing /\ ~isRefreshing')]_vars
  /\ [](Len(alerts) = IF isRefreshing THEN batches - 1 ELSE batches)

C6_Witness ==
  /\ ~isRefreshing /\ rpc = "idle" /\ batches = 1
  /\ Len(alerts) = 1 /\ Len(alerts[1].failures) = 2 /\ alerts[1].updated = 1
  /\ alerts[1].failures[1].reason # alerts[1].failures[2].reason

\* a bulk fetch of the form is in flight
InFlight == Cardinality({c \in Callers : calls[c].pc = "fetching"})

\* C7: a search call whose bulk fetch fails stores an empty result and
\* leaves the cache as it was, which is unset when calls do not overlap; the
\* cache never holds an empty directory; a search call that finds the cache
\* unset issues a bulk fetch.
C7_FailureNotCached ==
  /\ [][bulkFailed' = bulkFailed + 1 =>
          /\ searchResults' = <<>>
          /\ cachedPlayers' = cachedPlayers
          /\ (~overlapped => cachedPlayers' = None)]_vars
  /\ [](cachedPlayers # None => cachedPlayers[1] # <<>>)
  /\ [][(cachedPlayers = None /\ searchCalls' = searchCalls + 1) =>
          bulkFetches' = bulkFetches + 1]_vars

C7_Witness ==
  /\ ~overlapped /\ bulkFailed = 2 /\ cachedPlayers = None /\ bulkFetches = 3
  /\ InFlight = 1

\* C8 as stated: after N >= 1 sequential search calls exactly one bulk fetch
\* has been issued, and none if N = 0.
C8_ExactlyOneFetch ==
  ~overlapped =>
    /\ searchCalls >= 1 => bulkFetches = 1
    /\ searchCalls = 0 => bulkFetches = 0

\* C8 (amended): across sequential search calls every call issues a bulk
\* fetch until one succeeds and none is issued after that, so the fetches
\* are the failed ones, the one in flight and the one that filled the cache:
\* exactly one when the first fetch succeeds, and zero if N = 0.
C8_OneFetchPerUnfilledCall ==
  ~overlapped =>
    /\ bulkFetches = bulkFailed + InFlight + (IF cachedPlayers # None THEN 1 ELSE 0)
    /\ InFlight <= 1
    /\ bulkFetches <= searchCalls
    /\ (cachedPlayers = None /\ InFlight = 0) => bulkFetches = searchCalls
    /\ bulkFailed = 0 /\ searchCalls >= 1 => bulkFetches = 1
    /\ searchCalls = 0 => bulkFetches = 0

C8_Witness ==
  /\ ~overlapped /\ searchCalls = 3 /\ cachedPlayers # None
  /\ bulkFetches = 2 /\ bulkFailed = 1 /\ InFlight = 0

\* the search term, the tier of a name under it, and the cached entries
\* that match it
SearchTerm(q) == Trim(ToLowerCase(q))

Tier(name, term) ==
  IF ToLowerCase(name) = term THEN 1
  ELSE IF StartsWith(ToLowerCase(name), term) THEN 2 ELSE 3

Matching(dir, term) == {p \in Range(dir) : Includes(ToLowerCase(p.fullName), term)}

PositionIn(dir, id) == CHOOSE i \in 1..Len(dir) : dir[i].id = id

NamesOf(results) == [i \in 1..Len(results) |-> results[i].name]

ResultsAreTheMatches ==
  LET m == Matching(cachedPlayers[1], SearchTerm(debouncedSearchQuery))
  IN /\ Len(searchResults) = Cardinality(m)
     /\ Range(searchResults) = {[id |-> p.id, name |-> p.fullName] : p \in m}

TiersInOrder ==
  \A i, j \in 1..Len(searchResults) :
    i < j => Tier(searchResults[i].name, SearchTerm(debouncedSearchQuery))
               <= Tier(searchResults[j].name, SearchTerm(debouncedSearchQuery))

SameTier(i, j) ==
  Tier(searchResults[i].name, SearchTerm(debouncedSearchQuery))
    = Tier(searchResults[j].name, SearchTerm(debouncedSearchQuery))

AlphabeticalWithinTier ==
  \A i, j \in 1..Len(searchResults) :
    (i < j /\ SameTier(i, j)) =>
      LocaleCompare(ToLowerCase(searchResults[i].name),
                    ToLowerCase(searchResults[j].name)) <= 0

DirectoryOrderWithinTier ==
  \A i, j \in 1..Len(searchResults) :
    (i < j /\ SameTier(i, j)) =>
      PositionIn(cachedPlayers[1], searchResults[i].id)
        < PositionIn(cachedPlayers[1], searchResults[j].id)

\* query "mar" over {"Mark Stone", "Connor McDavid", "Marner"}
MarOverTheThree ==
  /\ SearchTerm(debouncedSearchQuery) = <<"m", "a", "r">>
  /\ {p.fullName : p \in Range(cachedPlayers[1])} = {MarkStone, ConnorMcDavid, Marner}
  /\ Len(cachedPlayers[1]) = 3

Ranked == Len(debouncedSearchQuery) >= 2 /\ cachedPlayers # None

\* C9 as stated: the results are the matches, exact before prefix before
\* substring, alphabetical within a tier, and "mar" over the three names
\* gives ["Marner", "Mark Stone"].
C9_AlphabeticalWithinTier ==
  Ranked =>
    /\ ResultsAreTheMatches
    /\ TiersInOrder
    /\ AlphabeticalWithinTier
    /\ MarOverTheThree => NamesOf(searchResults) = <<Marner, MarkStone>>

\* C9 (amended): the results are the matches, exact before prefix before
\* substring; within a tier they are alphabetical in the id-based revision
\* and in directory order in the legacy one; "mar" over the three names
\* gives ["Mark Stone", "Marner"] in the id-based revision and the two in
\* directory order in the legacy one.
C9_RankedByTier ==
  Ranked =>
    /\ ResultsAreTheMatches
    /\ TiersInOrder
    /\ variant = "id" => AlphabeticalWithinTier
    /\ variant = "name" => DirectoryOrderWithinTier
    /\ (MarOverTheThree /\ variant = "id") =>
         NamesOf(searchResults) = <<MarkStone, Marner>>
    /\ (MarOverTheThree /\ variant = "name") =>
         /\ Range(NamesOf(searchResults)) = {MarkStone, Marner}
         /\ Len(searchResults) = 2
         /\ DirectoryOrderWithinTier

C9_Witness ==
  /\ Ranked /\ MarOverTheThree /\ variant = "id"
  /\ debouncedSearchQuery = <<"M", "a", "r", " ">>
  /\ cachedPlayers[1][1].fullName = Marner
  /\ NamesOf(searchResults) = <<MarkStone, Marner>>

\* the getNHLPlayerStats call on record got a parsed payload
Parsed == statsCall # None /\ statsCall[1].resp.kind = "json" /\ ~statsCall[1].resp.isNull

\* ... without a player record (legacy endpoint)
NoPlayerRecord ==
  statsCall[1].resp.people = None \/ statsCall[1].resp.people[1] = <<>>

\* ... without a statistics block, or without an entry for the season
NoSeasonBlock ==
  LET resp == statsCall[1].resp
  IN IF variant = "id"
     THEN \/ resp.stats = None \/ resp.stats[1] = <<>>
          \/ resp.stats[1][1].splits = None \/ resp.stats[1][1].splits[1] = <<>>
     ELSE /\ ~NoPlayerRecord
          /\ LET groups == IF resp.people[1][1].stats = None THEN <<>>
                           ELSE resp.people[1][1].stats[1]
             IN \A i \in 1..Len(groups) :
                  groups[i].displayName = "regularSeasonStatRest" =>
                    \/ groups[i].stats = None
                    \/ \A k \in 1..Len(groups[i].stats[1]) :
                         groups[i].stats[1][k].season
                           # GetCurrentNHLSeason(statsCall[1].date)

ZeroFilled ==
  /\ statsCall[1].result # None
  /\ statsCall[1].result[1].totalGames = 0
  /\ statsCall[1].result[1].pointsGames = 0
  /\ statsCall[1].result[1].shots = 0
  /\ variant = "name" => statsCall[1].result[1].points = 0

\* C10 as stated: a parsed payload with no provider data for the player, no
\* stats entry or no entry for the current season gives a zero-filled
\* snapshot, never 'no result'.
C10_NoBlockZeroFilled ==
  (Parsed /\ ((variant = "name" /\ NoPlayerRecord) \/ NoSeasonBlock)) => ZeroFilled

\* C10 (amended): a parsed payload with no stats entry or no entry for the
\* current season gives a zero-filled snapshot, not 'no result'; in the
\* legacy revision a payload with no player record at all gives 'no result'.
C10_NoSeasonZeroFilled ==
  /\ (Parsed /\ NoSeasonBlock) => ZeroFilled
  /\ (Parsed /\ variant = "name" /\ NoPlayerRecord) => statsCall[1].result = None

C10_Witness ==
  /\ Parsed /\ variant = "name" /\ NoSeasonBlock /\ ZeroFilled
  /\ statsCall[1].date.month = 8
  /\ statsCall[1].resp.people[1][1].stats # None
  /\ \E i \in 1..Len(statsCall[1].resp.people[1][1].stats[1]) :
       LET g == statsCall[1].resp.people[1][1].stats[1][i]
       IN g.displayName = "regularSeasonStatRest" /\ g.stats # None /\ g.stats[1] # <<>>
  /\ Len(failedPlayers) >= 1 /\ failedPlayers[Len(failedPlayers)].reason = NoGames

\* the getNHLPlayerStats call on record failed at the transport level
TransportFailures == {"throw", "status", "badjson"}

\* C11: a getNHLPlayerStats call whose fetch throws, comes back with a
\* non-success status or with unparsable JSON returns 'no result'; its caller
\* records that once, as 'not fetched' (nothing was thrown into its catch
\* block), writes nothing, and goes on to a later player: no second request
\* is issued for that player.
C11_TransportFailureIsNoResult ==
  /\ []((statsCall # None /\ statsCall[1].resp.kind \in TransportFailures)
          => statsCall[1].result = None)
  /\ [][(rpc = "fetching" /\ statsCall' # None
           /\ statsCall'[1].resp.kind \in TransportFailures) =>
          /\ statsCall'[1].result = None
          /\ replies'[rIdx] = Reply(Searched(variant), None, "none")
          /\ failedPlayers'[Len(failedPlayers) + 1]
               = Failure(batch[rIdx], NotFetched(variant))
          /\ Cardinality({i \in 1..Len(failedPlayers') :
                            failedPlayers'[i].name = batch[rIdx].name}) = 1
          /\ rIdx' > rIdx
          /\ rpc' # "writing"
          /\ rows' = rows /\ updatedCount' = updatedCount]_vars

C11_Witness ==
  /\ variant = "id" /\ rpc = "fetching" /\ rIdx = 2
  /\ statsCall # None /\ statsCall[1].resp.kind = "badjson"
  /\ statsCall[1].playerId = batch[1].nhl_player_id[1]
  /\ failedPlayers = <<Failure(batch[1], NotFetched("id"))>>

\* a getNHLPlayerStats call of the batch is in progress
InStatsCall == rpc \in {"loading", "fetching"}

\* C12 as stated: no step of a getNHLPlayerStats call, by identifier or by
\* name, changes the Directory Cache or a persisted row.
C12_NoSideEffect ==
  [][InStatsCall => (cachedPlayers' = cachedPlayers /\ rows' = rows)]_vars

\* C12 (amended): no step of a getNHLPlayerStats call changes a persisted
\* row; a call by identifier leaves the Directory Cache as it is; a call by
\* name changes it only by filling an unset cache with the directory of a
\* successful bulk fetch, and leaves a filled cache as it is.
C12_RowsKeptCacheOnlyFilled ==
  [][InStatsCall =>
       /\ rows' = rows
       /\ (variant = "id" \/ rpc = "fetching" \/ cachedPlayers # None)
            => cachedPlayers' = cachedPlayers
       /\ cachedPlayers' # cachedPlayers =>
            /\ cachedPlayers = None /\ cachedPlayers' # None
            /\ cachedPlayers'[1] # <<>>
            /\ bulkFailed' = bulkFailed]_vars

C12_Witness ==
  /\ variant = "name" /\ rpc = "fetching" /\ rIdx = 1
  /\ cachedPlayers # None /\ bulkFetches = 1 /\ bulkFailed = 0
  /\ rows = rowsAtStart

\* handler k's update is accepted by the storage layer in this step
UpdateApplied(k) ==
  /\ ops[k].kind = "update" /\ ops[k].pc = "writing" /\ ops'[k].pc = "listing"
  /\ ops[k].id \in DOMAIN rows

\* C13: every update the storage layer accepts sets the row's updated_at,
\* together with the caller's fields, to a time not before the row's prior
\* updated_at.
C13_UpdatedAtNeverDecreases ==
  [][\A k \in Handlers :
       UpdateApplied(k) =>
         /\ \A f \in DOMAIN ops[k].fields : rows'[ops[k].id][f] = ops[k].fields[f]
         /\ "updated_at" \in DOMAIN ops[k].fields
         /\ rows'[ops[k].id].updated_at >= rows[ops[k].id].updated_at]_vars

\* handler k's delete comes back in this step for an id no row has
DeleteOfMissingReturns(k) ==
  /\ ops[k].kind = "delete" /\ ops[k].pc = "writing" /\ ops'[k].pc # "writing"
  /\ ops[k].id \notin DOMAIN rows

\* C14: a confirmed delete of an id that matches no persisted row takes the
\* failure path: 'Failed to delete player' is shown and no re-list follows.
C14_DeleteOfMissingFails ==
  [][\A k \in Handlers :
       DeleteOfMissingReturns(k) =>
         /\ notices' = Append(notices, FailedToDelete)
         /\ ops'[k] = IdleOp
         /\ loading' = loading]_vars

\* handler k's write comes back in this step
WriteAnswered(k) == ops[k].pc = "writing" /\ ops'[k].pc # "writing"

Writing == Cardinality({k \in Handlers : ops[k].pc = "writing"})

IsDigits(digits) == \A i \in 1..Len(digits) : IndexOf(DigitChars, digits[i]) > 0

\* C16: what getCurrentNHLSeason returned is, for the date of that call with
\* year Y and month index m, the four digits of Y-1 followed by those of Y
\* when m < 8, and those of Y followed by those of Y+1 when m >= 8; a call
\* on a later date gives the season of that date.
C16_SeasonOfTheDate ==
  season # None =>
    /\ Len(season[1]) = 8 /\ IsDigits(season[1])
    /\ DigitsValue(SubSeq(season[1], 1, 4))
         = (IF today.month < 8 THEN today.year - 1 ELSE today.year)
    /\ DigitsValue(SubSeq(season[1], 5, 8))
         = (IF today.month < 8 THEN today.year ELSE today.year + 1)

C16_Witness ==
  /\ seasonCalls = 2 /\ today = [year |-> 1999, month |-> 8]
  /\ season = Some(<<"1", "9", "9", "9", "2", "0", "0", "0">>)

\* the list as the table shows it
Shown == SortedPlayers(players, sortBy)

ZeroText(v) == IF v = "id" THEN <<"0", ".", "0", "0">> ELSE <<"0", ".", "0">>

\* C17: every ratio of a listed player is a number (never NaN, never
\* Infinity); with a total of 0 games the ratio is exactly 0, in the row's
\* cell and in the sort key alike, so the comparator of the sort always
\* returns a number and the sorted list is in descending order of the ratio.
C17_RatioTotal ==
  /\ \A i \in 1..Len(players) :
       LET p == players[i] IN
         /\ PointsAverage(p).kind = "number" /\ ShotsPerGame(p).kind = "number"
         /\ \A key \in {"points", "shots"} : SortAverage(key, p).kind = "number"
         /\ p.points_total_games = 0 =>
              /\ PointsAverage(p) = Zero /\ SortAverage("points", p) = Zero
              /\ PointsShown(variant, p) = ZeroText(variant)
         /\ p.shots_total_games = 0 =>
              /\ ShotsPerGame(p) = Zero /\ SortAverage("shots", p) = Zero
              /\ ShotsShown(variant, p) = ZeroText(variant)
         /\ \A j \in 1..Len(players) :
              SortCompare(sortBy, p, players[j]).kind = "number"
  /\ Len(Shown) = Len(players) /\ Range(Shown) = Range(players)
  /\ sortBy # "name" =>
       \A i \in 1..(Len(Shown) - 1) :
         Minus(SortAverage(sortBy, Shown[i]), SortAverage(sortBy, Shown[i + 1])).num >= 0

C17_Witness ==
  /\ sortBy = "points" /\ Len(players) = 2
  /\ players[1].points_total_games = 0 /\ players[1].shots_total_games = 0
  /\ players[2].points_total_games > 0
  /\ Shown = <<players[2], players[1]>>
  /\ PointsShown(variant, players[1]) = ZeroText(variant)

\* C18: when the debounced query changes to one of fewer than 2 characters,
\* searchNHLPlayers is not called, no request goes out and no call is left
\* in flight by it, and the result list is set to empty.
C18_ShortQueryNoSearch ==
  [][(debouncedSearchQuery' # debouncedSearchQuery /\ Len(debouncedSearchQuery') < 2) =>
       /\ searchCalls' = searchCalls
       /\ bulkFetches' = bulkFetches
       /\ calls' = calls
       /\ cachedPlayers' = cachedPlayers
       /\ searchResults' = <<>>]_vars

C18_Witness ==
  /\ Len(debouncedSearchQuery) = 1
  /\ searchCalls = 1 /\ bulkFetches = 1
  /\ cachedPlayers # None
  /\ searchResults = <<>>
  /\ \A c \in Callers : calls[c].pc = "idle"

\* C19: under every interleaving of searches, once cachedPlayers is
\* populated it is never assigned again: it is populated at most once and
\* keeps that value.
C19_CachePopulatedOnce ==
  [][cachedPlayers # None => cachedPlayers' = cachedPlayers]_vars

\* C20: a refresh batch handles its players one after another in the order
\* of the list it started with: while a fetch or write is outstanding it is
\* the one of player rIdx, all players before rIdx have been answered and
\* none after it; the position only moves forward, a fetch is followed by
\* the write of the same player, the next fetch is issued only when that
\* write has returned, and a write changes the row of player rIdx alone.
C20_OnePlayerAtATime ==
  /\ [](InLoop => rIdx \in 1..Len(batch) /\ Len(replies) = rIdx - 1)
  /\ [](rpc = "reloading" => rIdx = Len(batch) + 1 /\ Len(replies) = Len(batch))
  /\ []((rpc \in {"fetching", "writing"} /\ variant = "id") =>
          rPid = batch[rIdx].nhl_player_id[1])
  /\ [][(InLoop /\ rpc' # "idle") =>
          /\ rIdx' >= rIdx
          /\ Len(replies') >= Len(replies)
          /\ SubSeq(replies', 1, Len(replies)) = replies
          /\ batch' = batch]_vars
  /\ [][(rpc = "fetching" /\ rpc' = "writing") => rIdx' = rIdx]_vars
  /\ [][(rpc = "writing" /\ rpc' # rpc) => rIdx' > rIdx]_vars
  /\ [][rpc' = "writing" => rpc \in {"fetching", "writing"}]_vars
  /\ [][rows' # rows =>
          /\ rpc = "writing" /\ rpc' # "writing"
          /\ DOMAIN rows' = DOMAIN rows
          /\ \A id \in DOMAIN rows : id # batch[rIdx].id => rows'[id] = rows[id]]_vars
  /\ [][(statsCall' # statsCall /\ statsCall' # None) =>
          rpc = "fetching" /\ statsCall'[1].playerId = rPid]_vars

C20_Witness ==
  /\ rpc = "writing" /\ Len(batch) = 2 /\ rIdx = 2
  /\ Len(replies) = 1 /\ replies[1].wrote = "ok"
  /\ rows[batch[1].id].updated_at = rNow
  /\ statsCall # None /\ statsCall[1].playerId = rPid

\* C21: a batch is running exactly while the 'refreshing' flag is true, and
\* then the refresh button is disabled; a batch starts only when none is
\* running; the button is disabled whenever the player list is empty.
C21_OneBatchAtATime ==
  /\ [](isRefreshing <=> rpc # "idle")
  /\ [](rpc # "idle" => RefreshDisabled(players, isRefreshing))
  /\ [](Len(players) = 0 => RefreshDisabled(players, isRefreshing))
  /\ [][batches' # batches =>
          /\ rpc = "idle" /\ ~isRefreshing /\ Len(players) # 0
          /\ isRefreshing' /\ rpc' # "idle"
          /\ batches' = batches + 1]_vars
  /\ [][(isRefreshing /\ ~isRefreshing') => rpc = "reloading" /\ rpc' = "idle"]_vars

C21_Witness ==
  /\ batches = 1 /\ isRefreshing /\ rpc = "writing" /\ rIdx = 2
  /\ Len(players) > 0
  /\ RefreshDisabled(players, isRefreshing)

\* failedPlayers grows by a record for the player at rIdx, with this reason
\* first among what the step pushes
Collects(reasons) ==
  /\ Len(failedPlayers') > Len(failedPlayers)
  /\ SubSeq(failedPlayers', 1, Len(failedPlayers)) = failedPlayers
  /\ failedPlayers'[Len(failedPlayers) + 1].name = batch[rIdx].name
  /\ failedPlayers'[Len(failedPlayers) + 1].reason \in reasons

\* the batch goes on: to a later player or to its end-of-batch steps
GoesOn == rpc' \in {"loading", "fetching", "reloading"} /\ rIdx' > rIdx /\ isRefreshing'

\* C22: every failure inside a batch ends as a {name, reason} record and the
\* batch goes on: a failed bulk fetch makes the search of getNHLPlayerStats
\* return nothing ('not found'), a failed stats fetch makes it return 'no
\* result', an update that returns an error or throws is recorded with its
\* reason; the batch only ever ends through its end-of-batch steps (reload,
\* flag cleared, summary shown).
C22_FailuresCollected ==
  /\ [][(rpc = "loading" /\ bulkFailed' # bulkFailed) =>
          /\ cachedPlayers' = cachedPlayers
          /\ replies' [rIdx] = Reply("notfound", None, "none")
          /\ Collects({NotFetched(variant)}) /\ GoesOn]_vars
  /\ [][(rpc = "fetching" /\ statsCall' # None /\ statsCall'[1].resp.kind # "json") =>
          /\ statsCall'[1].result = None
          /\ Collects({NotFetched(variant)}) /\ GoesOn]_vars
  /\ [][(rpc = "writing" /\ rpc' # "writing" /\ replies'[rIdx].wrote # "ok") =>
          /\ rows' = rows /\ updatedCount' = updatedCount
          /\ Collects(IF replies'[rIdx].wrote = "error" THEN {DbFailed} ELSE Thrown)
          /\ GoesOn]_vars
  /\ [][(rpc # "idle" /\ rpc' = "idle") =>
          /\ rpc = "reloading" /\ ~isRefreshing' /\ ~loading'
          /\ alerts' = Append(alerts, Summary(variant, updatedCount, failedPlayers))]_vars

C22_Witness ==
  /\ rpc = "idle" /\ batches = 1 /\ Len(alerts) = 1 /\ Len(batch) = 3
  /\ Len(failedPlayers) = 3
  /\ failedPlayers[1].reason = NotFetched(variant)
  /\ failedPlayers[2].reason = "Failed to fetch"
  /\ failedPlayers[3].reason = DbFailed
  /\ replies[1].games = None /\ replies[2].wrote = "throw" /\ replies[3].wrote = "error"

\* the season-stats call on record got a payload with a non-empty block
HasStatsBlock == variant = "id" /\ Parsed /\ ~NoSeasonBlock

\* C23: a season-stats payload with a non-empty statistics block gives a
\* snapshot, not 'no result', whose totalGames is the block's games, whose
\* pointsGames is goals + assists and whose shots is the block's shots, a
\* missing figure counting as 0.
C23_StatsBlockGivesSnapshot ==
  HasStatsBlock =>
    LET stat == statsCall[1].resp.stats[1][1].splits[1][1].stat
        result == statsCall[1].result
    IN /\ result # None
       /\ result[1].totalGames = OrZero(stat.games)
       /\ result[1].pointsGames = OrZero(stat.goals) + OrZero(stat.assists)
       /\ result[1].shots = OrZero(stat.shots)

\* C24: every row of the table has points_total_games >= 0 and
\* shots_total_games >= 0.
C24_TotalsNeverNegative ==
  \A id \in DOMAIN rows :
    rows[id].points_total_games >= 0 /\ rows[id].shots_total_games >= 0

\* no search call of the form is in flight
SearchesDone == \A c \in Callers : calls[c].pc = "idle"

\* C25: when every search has completed, the displayed results belong to the
\* latest debounced query: none when it is shorter than 2 characters, and
\* otherwise only players whose name contains it.
C25_ResultsOfLatestQuery ==
  SearchesDone =>
    IF Len(debouncedSearchQuery) < 2 THEN searchResults = <<>>
    ELSE \A i \in 1..Len(searchResults) :
           Includes(ToLowerCase(searchResults[i].name),
                    Trim(ToLowerCase(debouncedSearchQuery)))

\* C26: while no stats fetch of the form is in flight the draft agrees with
\* the selection (the selected player's name and id, or an empty name and id
\* 0 when nothing is selected), and while one is in flight the submit button
\* is disabled.
C26_DraftAgreesWithSelection ==
  /\ statFetches = <<>> =>
       IF selectedPlayer # None
       THEN /\ newPlayer.name = selectedPlayer[1].name
            /\ newPlayer.nhl_player_id = selectedPlayer[1].id
       ELSE newPlayer.name = <<>> /\ newPlayer.nhl_player_id = 0
  /\ statFetches # <<>> => SubmitDisabled(newPlayer, isFetchingStats)

EditedFields ==
  {"name", "points_games", "points_total_games", "shots_threshold", "shots_games",
   "shots_total_games"}

\* C27: a save from the legacy row editor with no field changed, once the
\* storage layer has accepted it, leaves the row's six editable fields as
\* they were just before.
C27_UnchangedSaveKeepsRow ==
  [][\A k \in Handlers :
       UpdateApplied(k) =>
         \A f \in EditedFields : rows'[ops[k].id][f] = rows[ops[k].id][f]]_vars

\* the columns a refresh write leaves alone
KeptByRefresh == {"id", "name", "nhl_player_id", "shots_threshold", "created_at"}

\* C28: a step of a refresh batch that changes the table is the write of the
\* player at hand and changes only that player's row, and of it only
\* points_games, points_total_games, shots_games, shots_total_games and
\* updated_at; no row is created or deleted, so throughout a batch every row
\* the table had at its start is there with its id, name, provider id,
\* shots_threshold and created_at.
C28_RefreshWriteFrame ==
  /\ [][rows' # rows =>
          /\ rpc = "writing"
          /\ DOMAIN rows' = DOMAIN rows
          /\ \A i \in DOMAIN rows :
               IF rows[i].id = batch[rIdx].id
               THEN \A f \in KeptByRefresh : rows'[i][f] = rows[i][f]
               ELSE rows'[i] = rows[i]]_vars
  /\ [](batches > 0 =>
          /\ DOMAIN rows = DOMAIN rowsAtStart
          /\ \A i \in DOMAIN rows :
               /\ \A f \in KeptByRefresh : rows[i][f] = rowsAtStart[i][f]
               /\ DOMAIN rows[i] = DOMAIN rowsAtStart[i])

C28_Witness ==
  /\ BatchOver /\ Len(rows) = 2 /\ Len(batch) = 2
  /\ replies[1].wrote = "ok" /\ replies[2].wrote = "none"
  /\ Figures(rows[batch[1].id]) # Figures(rowsAtStart[batch[1].id])
  /\ rows[batch[1].id].updated_at = 1 /\ rowsAtStart[batch[1].id].updated_at = 0
  /\ rows[batch[2].id] = rowsAtStart[batch[2].id]

====
